---- MODULE Spec2Model ----
(***************************************************************************)
(* Route-planning engine of the waste-bin manager: Dijkstra's search, the  *)
(* greedy multi-target route (compute_route), the priority-weighted graph  *)
(* builders, the urgency scorer, model training and the model store,       *)
(* compute_optimal_route and the route request of the web API.             *)
(*                                                                         *)
(* Numbers.  The program computes in floats; the model computes in exact   *)
(* integers.  Edge weights and distances of the search are integers, and   *)
(* float('inf') is the number Infinity, larger than every finite cost the  *)
(* bounded inputs can produce.  Quotients (edge weights of the builders,   *)
(* urgency terms) are kept as numerator/denominator pairs and compared by  *)
(* cross-multiplication.                                                   *)
(***************************************************************************)
EXTENDS Integers, Sequences, FiniteSets, TLC

\* ---------------------------------------------------------------- bounds
NumVertices == 3
MaxWeight == 2
MaxEdges == 3
MaxTargets == 2

\* float('inf') (dijkstra.py line 9) and None (dijkstra.py line 10)
Infinity == 1000000
None == 0

\* float('nan'): a number no computation of the model yields
NaN == 0 - (2 * Infinity)

Vertices == 1..NumVertices
Weights == 0..MaxWeight

VARIABLES graph, source, targets, pc, dist, prev, nearest,
          route_path, total_cost, current, remaining, result

routeVars == <<graph, source, targets, pc, dist, prev, nearest,
               route_path, total_cost, current, remaining, result>>

\* the graph builders: the node list, the score of each node, alpha, and
\* what the builder returned
VARIABLES nodes, scores, alphaT, built

builderVars == <<nodes, scores, alphaT, built>>

\* the urgency scorer: the calculator's weights, the nodes with their latest
\* reading, the stored model file, the locals of calculate_node_priorities
\* (with, for each node, where its score came from), and the argument and
\* the result of select_top_priority_nodes
VARIABLES calc, pnodes, user_lat, model_file, use_ai_model, ai_model,
          priorities, idx, ppc, outcomes, max_nodes, selected

scorerVars == <<calc, pnodes, user_lat, model_file, use_ai_model, ai_model,
                priorities, idx, ppc, outcomes, max_nodes, selected>>

\* training and the model store: the number of nodes with readings in the
\* database, the locals of train_from_db (the feature rows, the split, what
\* it returned), the model file and its metadata sidecar, and for each
\* concurrent request that reads the store its position, what load_model and
\* get_model_version gave it, the feature vector it passed to the model and
\* how it ended
VARIABLES n_samples, df, X_train, X_test, tpc, train_result,
          stored_model, stored_meta, rpc, rmodel, rversion, rfeatures, rresp

trainVars == <<n_samples, df, X_train, X_test, tpc, train_result,
               stored_model, stored_meta, rpc, rmodel, rversion, rfeatures, rresp>>

\* compute_optimal_route: its arguments (the nodes with their latitudes, the
\* urgency scores, alpha (in tenths), the user location, source_node_id) and
\* its locals, and the route record its caller builds from the result
VARIABLES onodes, oscores, oalpha, user_location, source_node_id,
          ograph, osource, odistances, unvisited, opath, ototal, ocurrent,
          opc, oresult, orecord

optVars == <<onodes, oscores, oalpha, user_location, source_node_id,
             ograph, osource, odistances, unvisited, opath, ototal, ocurrent,
             opc, oresult, orecord>>

\* views.api_compute_route: the request's source_node_id and
\* target_node_ids, the position of the handler, its response and the
\* CollectionRoute rows it has created
VARIABLES req_source, req_targets, apc, api_response, persisted

apiVars == <<req_source, req_targets, apc, api_response, persisted>>

vars == <<routeVars, builderVars, scorerVars, trainVars, optVars, apiVars>>

\* what the actions of one component leave alone
notRouteVars == <<builderVars, scorerVars, trainVars, optVars, apiVars>>
notBuilderVars == <<routeVars, scorerVars, trainVars, optVars, apiVars>>
notScorerVars == <<routeVars, builderVars, trainVars, optVars, apiVars>>
notTrainVars == <<routeVars, builderVars, scorerVars, optVars, apiVars>>
notOptVars == <<routeVars, builderVars, scorerVars, trainVars, apiVars>>
notApiVars == <<scorerVars, trainVars, optVars>>

\* ------------------------------------------------------- dict helpers
\* d.get(k, default)
Get(d, k, default) == IF k \in DOMAIN d THEN d[k] ELSE default

\* d[k] = v   (adds the key when it is new)
Put(d, k, v) == [x \in (DOMAIN d) \cup {k} |-> IF x = k THEN v ELSE d[x]]

\* min(S) of a non-empty set of numbers
SetMin(S) == CHOOSE x \in S : \A y \in S : x <= y

\* a + b on floats where either may be inf
Plus(a, b) == IF a = Infinity \/ b = Infinity THEN Infinity ELSE a + b

\* ------------------------------------------------------------ dijkstra
\* Python's order on the heap entries (d, u): by d, then by u
TupleLess(a, b) == a[1] < b[1] \/ (a[1] = b[1] /\ a[2] < b[2])

\* heapq.heappop: the index of the least entry of the heap's list
HeapMinIndex(pq) ==
    CHOOSE i \in 1..Len(pq) :
        \A j \in 1..Len(pq) : j # i => (TupleLess(pq[i], pq[j]) \/ (pq[i] = pq[j] /\ i < j))

RemoveAt(s, i) == SubSeq(s, 1, i - 1) \o SubSeq(s, i + 1, Len(s))

\* mutant of Relax: the candidate distance forgets the distance of u (nd = w)
RECURSIVE Relax_NoAccumulate(_, _, _, _, _)
Relax_NoAccumulate(adj, i, d, u, st) ==
    IF i > Len(adj) THEN st
    ELSE LET v == adj[i][1]
             nd == adj[i][2]
         IN IF nd < Get(st.dist, v, Infinity)
            THEN Relax_NoAccumulate(adj, i + 1, d, u,
                       [dist |-> Put(st.dist, v, nd),
                        prev |-> Put(st.prev, v, u),
                        pq |-> Append(st.pq, <<nd, v>>),
                        visited |-> st.visited])
            ELSE Relax_NoAccumulate(adj, i + 1, d, u, st)

\* mutant of Relax: a candidate that equals the known distance is taken too
RECURSIVE Relax_NonStrict(_, _, _, _, _)
Relax_NonStrict(adj, i, d, u, st) ==
    IF i > Len(adj) THEN st
    ELSE LET v == adj[i][1]
             w == adj[i][2]
             nd == d + w
         IN IF nd <= Get(st.dist, v, Infinity)
            THEN Relax_NonStrict(adj, i + 1, d, u,
                       [dist |-> Put(st.dist, v, nd),
                        prev |-> Put(st.prev, v, u),
                        pq |-> Append(st.pq, <<nd, v>>),
                        visited |-> st.visited])
            ELSE Relax_NonStrict(adj, i + 1, d, u, st)

\* the for loop of lines 21-26 over the adjacency list adj of u, from index i
RECURSIVE Relax(_, _, _, _, _)
Relax(adj, i, d, u, st) ==
    IF i > Len(adj) THEN st
    ELSE LET v == adj[i][1]
             w == adj[i][2]
             nd == d + w
         IN IF nd < Get(st.dist, v, Infinity)
            THEN Relax(adj, i + 1, d, u,
                       [dist |-> Put(st.dist, v, nd),
                        prev |-> Put(st.prev, v, u),
                        pq |-> Append(st.pq, <<nd, v>>),
                        visited |-> st.visited])
            ELSE Relax(adj, i + 1, d, u, st)

\* the while loop of lines 15-26
RECURSIVE DijkstraLoop(_, _)
DijkstraLoop(g, st) ==
    IF st.pq = <<>> THEN [dist |-> st.dist, prev |-> st.prev]
    ELSE LET i == HeapMinIndex(st.pq)
             d == st.pq[i][1]
             u == st.pq[i][2]
             popped == [st EXCEPT !.pq = RemoveAt(st.pq, i)]
         IN IF u \in st.visited
            THEN DijkstraLoop(g, popped)
            ELSE DijkstraLoop(g, Relax(Get(g, u, <<>>), 1, d, u,
                                       [popped EXCEPT !.visited = @ \cup {u}]))

dijkstra(g, src) ==
    DijkstraLoop(g, [dist |-> Put([u \in DOMAIN g |-> Infinity], src, 0),
                     prev |-> [u \in DOMAIN g |-> None],
                     pq |-> << <<0, src>> >>,
                     visited |-> {}])

\* the vertex the while loop of reconstruct_path (lines 33-35) is at after k
\* iterations from cur, None once it has left the loop
RECURSIVE WalkBack(_, _, _)
WalkBack(p, cur, k) ==
    IF cur = None \/ k = 0 THEN cur
    ELSE WalkBack(p, Get(p, cur, None), k - 1)

\* the while loop of reconstruct_path never ends: after more iterations than
\* there are keys in prev (and the target) it is back on a vertex it has left,
\* so prev holds a cycle and path.append runs for ever
Diverges(p, target) ==
    WalkBack(p, target, Cardinality(DOMAIN p) + 1) # None

\* reconstruct_path: follows prev from target until None, then reverses
RECURSIVE ReconstructWalk(_, _)
ReconstructWalk(p, cur) ==
    IF cur = None THEN <<>>
    ELSE ReconstructWalk(p, Get(p, cur, None)) \o <<cur>>

\* mutant of reconstruct_path: the list is returned without path.reverse()
RECURSIVE reconstruct_path_NoReverse(_, _)
reconstruct_path_NoReverse(p, target) ==
    IF target = None THEN <<>>
    ELSE <<target>> \o reconstruct_path_NoReverse(p, Get(p, target, None))

reconstruct_path(p, target) == ReconstructWalk(p, target)

\* ---------------------------------------------------- input graphs
\* The graphs drawn as inputs: every vertex is a key, adjacency lists are
\* built by appending edges one at a time (so every order of a list occurs),
\* no self-loops, at most one edge per ordered pair, at most MaxEdges edges.
HasEdge(g, u, v) == \E i \in 1..Len(g[u]) : g[u][i][1] = v

EmptyGraph == [u \in Vertices |-> <<>>]

RECURSIVE GraphsUpTo(_)
GraphsUpTo(k) ==
    IF k = 0 THEN {EmptyGraph}
    ELSE LET smaller == GraphsUpTo(k - 1)
         IN smaller \cup
            {[g EXCEPT ![e[1]] = Append(@, <<e[2], e[3]>>)] :
                <<g, e>> \in {x \in smaller \X (Vertices \X Vertices \X Weights) :
                                x[2][1] # x[2][2] /\ ~HasEdge(x[1], x[2][1], x[2][2])}}

InputGraphs == GraphsUpTo(MaxEdges)

RECURSIVE SeqsUpTo(_, _)
SeqsUpTo(S, k) ==
    IF k = 0 THEN {<<>>}
    ELSE LET smaller == SeqsUpTo(S, k - 1)
         IN smaller \cup {Append(s, x) : <<s, x>> \in smaller \X S}

InputTargets == SeqsUpTo(Vertices, MaxTargets)

\* the graph of DijkstraTests.test_small_graph
TestGraph == (1 :> << <<2, 1>>, <<3, 4>> >>) @@ (2 :> << <<3, 2>> >>) @@ (3 :> <<>>)

\* ------------------------------------------------------- compute_route
NoResult == [kind |-> "none"]

\* mutant of NearestIndex: among equal keys the last element wins
NearestIndex_LastOnTie(rem, d) ==
    CHOOSE i \in 1..Len(rem) :
        /\ \A j \in 1..Len(rem) : Get(d, rem[i], Infinity) <= Get(d, rem[j], Infinity)
        /\ \A j \in (i + 1)..Len(rem) : Get(d, rem[j], Infinity) > Get(d, rem[i], Infinity)

\* min(remaining, key=lambda t: dist.get(t, inf)): the first element of the
\* list whose key is least
NearestIndex(rem, d) ==
    CHOOSE i \in 1..Len(rem) :
        /\ \A j \in 1..Len(rem) : Get(d, rem[i], Infinity) <= Get(d, rem[j], Infinity)
        /\ \A j \in 1..(i - 1) : Get(d, rem[j], Infinity) > Get(d, rem[i], Infinity)

Nearest(rem, d) == rem[NearestIndex(rem, d)]

\* list.remove(x): drops the first occurrence of x
RemoveFirst(s, x) ==
    LET i == CHOOSE k \in 1..Len(s) : s[k] = x /\ \A j \in 1..(k - 1) : s[j] # x
    IN RemoveAt(s, i)

\* mutant of ExtendRoute: the segment's first vertex is always dropped
ExtendRoute_AlwaysSkipFirst(route, segment) ==
    IF segment # <<>> THEN route \o Tail(segment) ELSE route

\* mutant of ExtendRoute: the segment is appended whole
ExtendRoute_NoSkip(route, segment) == route \o segment

\* lines 225-228: the segment joined to the route, its first vertex dropped
\* when it repeats the route's last one
ExtendRoute(route, segment) ==
    IF route # <<>> /\ segment # <<>> /\ segment[1] = route[Len(route)]
    THEN route \o Tail(segment)
    ELSE route \o segment

\* the alpha the result reports (line 237): a dict has no attribute alpha,
\* so the default 0.5, in tenths
DefaultAlphaTenths == 5

\* mutant of RemainingIsCopy: remaining = targets, the caller's list itself
RemainingIsCopy_Alias == FALSE

\* line 212, remaining = list(targets): a new list object, so that
\* remaining.remove (line 232) works on the copy and not on the caller's list
RemainingIsCopy == TRUE

RouteInit ==
    /\ graph \in InputGraphs \cup {TestGraph}
    /\ source \in Vertices
    /\ targets \in InputTargets
    /\ pc = "call"
    /\ dist = <<>>
    /\ prev = <<>>
    /\ nearest = None
    /\ route_path = <<>>
    /\ total_cost = 0
    /\ current = None
    /\ remaining = <<>>
    /\ result = NoResult

\* lines 203-206: no targets, the shortest-path tree is returned
ReturnTree ==
    /\ pc = "call"
    /\ targets = <<>>
    /\ LET r == dijkstra(graph, source)
       IN /\ dist' = r.dist
          /\ prev' = r.prev
          /\ result' = [kind |-> "tree", source |-> source,
                        distances |-> r.dist, tree_prev |-> r.prev]
    /\ pc' = "done"
    /\ UNCHANGED <<graph, source, targets, nearest, route_path, total_cost,
                   current, remaining>>
    /\ UNCHANGED notRouteVars

\* lines 209-212
StartRoute ==
    /\ pc = "call"
    /\ targets # <<>>
    /\ route_path' = <<>>
    /\ total_cost' = 0
    /\ current' = source
    /\ remaining' = targets
    /\ pc' = "select"
    /\ UNCHANGED <<graph, source, targets, dist, prev, nearest, result>>
    /\ UNCHANGED notRouteVars

\* lines 214-219: distances from the current position, the nearest target
SelectNext ==
    /\ pc = "select"
    /\ remaining # <<>>
    /\ LET r == dijkstra(graph, current)
       IN /\ dist' = r.dist
          /\ prev' = r.prev
          /\ nearest' = Nearest(remaining, r.dist)
    /\ pc' = "traverse"
    /\ UNCHANGED <<graph, source, targets, route_path, total_cost, current,
                   remaining, result>>
    /\ UNCHANGED notRouteVars

\* lines 221-232: the segment to the nearest target is appended; when the
\* loop of reconstruct_path (line 222) never ends the call stays there
Traverse ==
    /\ pc = "traverse"
    /\ IF Diverges(prev, nearest)
       THEN /\ pc' = "reconstruct_path"
            /\ UNCHANGED <<route_path, total_cost, current, remaining>>
       ELSE /\ route_path' = ExtendRoute(route_path, reconstruct_path(prev, nearest))
            /\ total_cost' = Plus(total_cost, Get(dist, nearest, 0))
            /\ current' = nearest
            /\ remaining' = RemoveFirst(remaining, nearest)
            /\ pc' = "select"
    /\ targets' = IF RemainingIsCopy THEN targets ELSE remaining'
    /\ UNCHANGED <<graph, source, dist, prev, nearest, result>>
    /\ UNCHANGED notRouteVars

\* lines 234-238
ReturnRoute ==
    /\ pc = "select"
    /\ remaining = <<>>
    /\ result' = [kind |-> "route", path |-> route_path,
                  total_cost |-> total_cost, alpha |-> DefaultAlphaTenths]
    /\ pc' = "done"
    /\ UNCHANGED <<graph, source, targets, dist, prev, nearest, route_path,
                   total_cost, current, remaining>>
    /\ UNCHANGED notRouteVars

RouteNext ==
    \/ ReturnTree
    \/ StartRoute
    \/ SelectNext
    \/ Traverse
    \/ ReturnRoute

\* no call of compute_route is in progress
RouteIdle ==
    /\ graph = EmptyGraph
    /\ source = None
    /\ targets = <<>>
    /\ pc = "idle"
    /\ dist = <<>>
    /\ prev = <<>>
    /\ nearest = None
    /\ route_path = <<>>
    /\ total_cost = 0
    /\ current = None
    /\ remaining = <<>>
    /\ result = NoResult

\* ------------------------------------------------------ graph builders
\* Units.  alpha and the scores are counted in tenths (alphaT = 5 is alpha
\* 0.5, score 9 is 0.9).  A weight is the quotient n/m of two integers.
MaxNodes == 3
MaxPos == 1

\* the alpha values a request can carry, in tenths (views.py line 201 takes
\* any float)
AlphaTenths == {-20, -1, 0, 5, 10}

\* the scores a caller can pass, in tenths; 12 is out of the documented range
ScoreTenths == {0, 2, 9, 12}

Rat(n, m) == [n |-> n, m |-> m]

\* the sign of n/m and the order of two quotients
RatNum(r) == IF r.m < 0 THEN 0 - r.n ELSE r.n
RatDen(r) == IF r.m < 0 THEN 0 - r.m ELSE r.m
RatLess(a, b) == RatNum(a) * RatDen(b) < RatNum(b) * RatDen(a)
RatNegative(r) == RatNum(r) < 0

Abs(x) == IF x < 0 THEN 0 - x ELSE x

\* haversine_distance for nodes on one meridian (equal longitudes), whose
\* latitudes are whole multiples of a step: a = sin^2(dphi/2), c = |dphi|, so
\* the distance is R * |lat2 - lat1|, counted here in units of R * step.
\* A missing coordinate counts as 0.
haversine_distance(lat1, lat2) == Abs(lat2 - lat1)

Clamp(lo, x, hi) == IF x < lo THEN lo ELSE IF x > hi THEN hi ELSE x

\* mutant of calculate_edge_weight: alpha is left out of the product
calculate_edge_weight_NoAlpha(base_distance, destination_priority, alpha) ==
    LET priority == Clamp(0, destination_priority, 10)
    IN Rat(10 * base_distance, 10 + 10 * priority)

\* mutant of calculate_edge_weight: the priority multiplies the distance
calculate_edge_weight_Direct(base_distance, destination_priority, alpha) ==
    LET priority == Clamp(0, destination_priority, 10)
    IN Rat(base_distance * (10 + alpha * priority), 10)

\* calculate_edge_weight: d / (1 + alpha * priority * 10), priority clamped to
\* [0, 1]; in tenths the denominator is (10 + alphaT * priorityT) / 10.
\* The quotient with m = 0 is Python's ZeroDivisionError.
calculate_edge_weight(base_distance, destination_priority, alpha) ==
    LET priority == Clamp(0, destination_priority, 10)
    IN Rat(10 * base_distance, 10 + alpha * priority)

\* the adjacency list of node i (index into the node list): the edges to every
\* other node, in list order, each weighted by W[i, j]
AdjacencyOf(ns, i, W) ==
    LET others == [k \in 1..(Len(ns) - 1) |-> IF k < i THEN k ELSE k + 1]
    IN [k \in 1..(Len(ns) - 1) |-> <<ns[others[k]].id, W[i, others[k]]>>]

Raises(g) ==
    \E u \in DOMAIN g : \E k \in 1..Len(g[u]) : g[u][k][2].m = 0

\* build_priority_graph: the exception of a weight computation leaves the
\* function without a graph
build_priority_graph(ns, priority_scores, alpha) ==
    LET W == [i \in 1..Len(ns), j \in 1..Len(ns) |->
                 calculate_edge_weight(
                     haversine_distance(ns[i].lat, ns[j].lat),
                     Get(priority_scores, ns[j].id, 0), alpha)]
        g == [u \in {ns[i].id : i \in 1..Len(ns)} |->
                 AdjacencyOf(ns, CHOOSE i \in 1..Len(ns) : ns[i].id = u, W)]
    IN IF Raises(g) THEN [kind |-> "raised", error |-> "ZeroDivisionError"]
       ELSE [kind |-> "graph", edges |-> g]

SetMax(S) == CHOOSE x \in S : \A y \in S : x >= y

\* views._build_graph: w = d * (1 + alpha * norm(cost[v])), the costs
\* normalised to [0, 1] over the node set (0 when they are all equal)
views_build_graph(ns, costs_by_node, alpha) ==
    LET costs == {Get(costs_by_node, ns[i].id, 0) : i \in 1..Len(ns)}
        cmin == IF costs # {} THEN SetMin(costs) ELSE 0
        cmax == IF costs # {} THEN SetMax(costs) ELSE 10
        W == [i \in 1..Len(ns), j \in 1..Len(ns) |->
                 LET d == haversine_distance(ns[i].lat, ns[j].lat)
                     c == Get(costs_by_node, ns[j].id, 0)
                 IN IF cmax - cmin = 0 THEN Rat(d, 1)
                    ELSE Rat(d * (10 * (cmax - cmin) + alpha * (c - cmin)),
                             10 * (cmax - cmin))]
    IN [kind |-> "graph",
        edges |-> [u \in {ns[i].id : i \in 1..Len(ns)} |->
                      AdjacencyOf(ns, CHOOSE i \in 1..Len(ns) : ns[i].id = u, W)]]

\* the weight of the edge u -> v of a built graph
BuiltWeight(g, u, v) ==
    LET k == CHOOSE k \in 1..Len(g[u]) : g[u][k][1] = v
    IN g[u][k][2]

\* node lists: ids 1..n in order (Node.objects.all().order_by('id')), each
\* node at a latitude step 0..MaxPos
InputNodeLists ==
    UNION {[1..n -> 0..MaxPos] : n \in 1..MaxNodes}

BuilderInit ==
    /\ \E lats \in InputNodeLists :
          /\ nodes = [i \in DOMAIN lats |-> [id |-> i, lat |-> lats[i]]]
          /\ scores \in [DOMAIN lats -> ScoreTenths]
    /\ alphaT \in AlphaTenths
    /\ built = [kind |-> "none"]

BuilderIdle ==
    /\ nodes = <<>>
    /\ scores = <<>>
    /\ alphaT = 0
    /\ built = [kind |-> "none"]

\* compute_optimal_route line 133: build_priority_graph(nodes, priority_scores, alpha)
BuildPriorityGraph ==
    /\ built.kind = "none"
    /\ built' = build_priority_graph(nodes, scores, alphaT) @@ [by |-> "build_priority_graph"]
    /\ UNCHANGED <<nodes, scores, alphaT>>
    /\ UNCHANGED notBuilderVars

\* api_compute_route lines 201-218: the request's alpha goes to _build_graph
BuildViewsGraph ==
    /\ built.kind = "none"
    /\ built' = views_build_graph(nodes, scores, alphaT) @@ [by |-> "_build_graph"]
    /\ UNCHANGED <<nodes, scores, alphaT>>
    /\ UNCHANGED notBuilderVars

BuilderNext ==
    \/ BuildPriorityGraph
    \/ BuildViewsGraph


\* ------------------------------------------------------- urgency scorer
\* Units.  A score is counted in units of 1/FullScore: FullScore is 1.0.
\* Each term of the weighted sum is a multiple of 1/TermScale (TermScale is
\* the least common multiple of the divisors 2000, 15 and 50 of the formula
\* and of the tenths the levels are counted in) and each weight a whole
\* percent, so the sum is exact.  Waste and gas levels are in tenths,
\* temperature in degrees, humidity in percent, distances in metres.
MaxScoredNodes == 2

\* the largest max_nodes select_top_priority_nodes is called with
MaxTop == 3

TermScale == 3 * 2000
FullScore == 100 * TermScale

\* one latitude step is 1000 m on the ground
StepMeters == 10 * 100

\* PriorityCalculator() with the default weights (lines 30-36), in percent
DefaultCalculator ==
    [distance_weight |-> 25, waste_weight |-> 35, gas_weight |-> 25,
     temperature_weight |-> 10, humidity_weight |-> 5, max_distance_m |-> 2000]

\* a calculator constructed with other weights, which sum to more than 1
HeavyCalculator ==
    [distance_weight |-> 50, waste_weight |-> 50, gas_weight |-> 50,
     temperature_weight |-> 10, humidity_weight |-> 5, max_distance_m |-> 1000]

\* max(0.0, min(1.0, x)) on a value counted in units of 1/scale
Clamp01(x, scale) == Clamp(0, x, scale)

\* Python's min(a, b) and max(a, b) of two floats: b is taken only when the
\* comparison b < a (b > a) is true, and every comparison with nan is false
PyMin(a, b) == IF a # NaN /\ b # NaN /\ b < a THEN b ELSE a
PyMax(a, b) == IF a # NaN /\ b # NaN /\ b > a THEN b ELSE a

\* distance_m / cap in units of 1/TermScale; nan stays nan
DistanceRatio(distance_m, cap) ==
    IF distance_m = NaN THEN NaN ELSE (distance_m * TermScale) \div cap

\* mutant of calculate_single_priority: no clamping at all
calculate_single_priority_Unclamped(c, distance_m, waste_level, gas_level, temperature, humidity) ==
    LET distance_priority == TermScale - (distance_m * TermScale) \div c.max_distance_m
        waste_priority == (waste_level * TermScale) \div 10
        gas_priority == (gas_level * TermScale) \div 10
        temp_priority == (Abs(temperature - 25) * TermScale) \div 15
        humidity_priority == ((humidity - 50) * TermScale) \div 50
    IN c.distance_weight * distance_priority
       + c.waste_weight * waste_priority
       + c.gas_weight * gas_priority
       + c.temperature_weight * temp_priority
       + c.humidity_weight * humidity_priority

\* calculate_single_priority (lines 55-100) of the calculator c
calculate_single_priority(c, distance_m, waste_level, gas_level, temperature, humidity) ==
    LET distance_norm == PyMin(TermScale, PyMax(0, DistanceRatio(distance_m, c.max_distance_m)))
        distance_priority == TermScale - distance_norm
        waste_priority == Clamp01((waste_level * TermScale) \div 10, TermScale)
        gas_priority == Clamp01((gas_level * TermScale) \div 10, TermScale)
        temp_deviation == (Abs(temperature - 25) * TermScale) \div 15
        temp_priority == Clamp01(temp_deviation, TermScale)
        humidity_priority == Clamp01(((humidity - 50) * TermScale) \div 50, TermScale)
        priority == c.distance_weight * distance_priority
                    + c.waste_weight * waste_priority
                    + c.gas_weight * gas_priority
                    + c.temperature_weight * temp_priority
                    + c.humidity_weight * humidity_priority
    IN Clamp01(priority, FullScore)

\* what model.predict can do with a feature vector: return any float (below 0,
\* inside [0, 1], above 1, or nan) or raise
PredictionOutcomes ==
    {[kind |-> "value", v |-> 0 - FullScore \div 2],
     [kind |-> "value", v |-> (3 * FullScore) \div 10],
     [kind |-> "value", v |-> (17 * FullScore) \div 10],
     [kind |-> "nan"],
     [kind |-> "raises"]}

\* mutant of PredictPriorityWithAi: the prediction is returned as it is
PredictPriorityWithAi_Raw(c, outcome, reading, distance_m) ==
    IF outcome.kind = "value" THEN outcome.v
    ELSE IF outcome.kind = "nan" THEN FullScore
    ELSE calculate_single_priority(c, distance_m, reading.waste_level,
                                   reading.gas_level, reading.temperature,
                                   reading.humidity)

\* _predict_priority_with_ai (lines 189-224), given what model.predict does:
\* the prediction clamped to [0, 1] (min(1.0, nan) is 1.0 in Python), the
\* rule-based score when anything in the try block raises
PredictPriorityWithAi(c, outcome, reading, distance_m) ==
    IF outcome.kind = "value" THEN Clamp01(outcome.v, FullScore)
    ELSE IF outcome.kind = "nan" THEN FullScore
    ELSE calculate_single_priority(c, distance_m, reading.waste_level,
                                   reading.gas_level, reading.temperature,
                                   reading.humidity)

\* the sensor values drawn as inputs.  Levels <<waste, gas>>: below, inside
\* and above the range 0.0-1.0.  Climates <<temperature, humidity>>: the
\* neutral point of the formula and far outside the normal range.
Levels == {<<-5, 0>>, <<5, 5>>, <<30, 30>>}
Climates == {<<25, 50>>, <<-40, 300>>}
NodeLats == {0, 9}

NoReading == [kind |-> "none"]

InputReadings ==
    {NoReading} \cup
    {[kind |-> "reading", waste_level |-> l[1], gas_level |-> l[2],
      temperature |-> c[1], humidity |-> c[2]] : <<l, c>> \in Levels \X Climates}

\* nodes with ids 1..n, each with a latitude and its latest reading (or none)
InputScoredNodes ==
    UNION {[1..n -> [lat : NodeLats, reading : InputReadings]] : n \in 1..MaxScoredNodes}

ScorerInit ==
    /\ calc \in {DefaultCalculator, HeavyCalculator}
    /\ pnodes \in InputScoredNodes
    /\ user_lat = 0
    /\ model_file \in {"absent", "valid", "corrupt"}
    /\ use_ai_model \in BOOLEAN
    /\ ai_model = "unset"
    /\ priorities = <<>>
    /\ idx = 0
    /\ ppc = "call"
    /\ outcomes = <<>>
    /\ max_nodes \in 1..MaxTop
    /\ selected = <<>>

ScorerIdle ==
    /\ calc = DefaultCalculator
    /\ pnodes = <<>>
    /\ user_lat = 0
    /\ model_file = "absent"
    /\ use_ai_model = FALSE
    /\ ai_model = "unset"
    /\ priorities = <<>>
    /\ idx = 0
    /\ ppc = "idle"
    /\ outcomes = <<>>
    /\ max_nodes = 1
    /\ selected = <<>>

\* calculate_node_priorities lines 119-125 with load_model (model_store.py
\* lines 17-21): no file gives None, a file that joblib cannot read raises
LoadModel ==
    /\ ppc = "call"
    /\ priorities' = <<>>
    /\ idx' = 1
    /\ IF ~use_ai_model \/ model_file = "absent"
       THEN ai_model' = "None" /\ ppc' = "loop"
       ELSE IF model_file = "valid"
       THEN ai_model' = "model" /\ ppc' = "loop"
       ELSE ai_model' = "unset" /\ ppc' = "raised"
    /\ UNCHANGED <<calc, pnodes, user_lat, model_file, use_ai_model, outcomes,
                   max_nodes, selected>>
    /\ UNCHANGED notScorerVars

DistanceFromUser(node) == StepMeters * haversine_distance(user_lat, node.lat)

\* one iteration of the loop of lines 127-154, for the node at idx
ScoreNode ==
    /\ ppc = "loop"
    /\ idx <= Len(pnodes)
    /\ LET node == pnodes[idx]
           reading == node.reading
           distance_m == DistanceFromUser(node)
       IN IF reading = NoReading
          THEN /\ priorities' = Put(priorities, idx, 0)
               /\ outcomes' = Put(outcomes, idx, "no reading")
          ELSE IF ai_model = "model"
          THEN \E outcome \in PredictionOutcomes :
                  /\ priorities' = Put(priorities, idx,
                                    PredictPriorityWithAi(calc, outcome, reading, distance_m))
                  /\ outcomes' = Put(outcomes, idx, outcome.kind)
          ELSE /\ priorities' = Put(priorities, idx,
                                 calculate_single_priority(calc, distance_m,
                                     reading.waste_level, reading.gas_level,
                                     reading.temperature, reading.humidity))
               /\ outcomes' = Put(outcomes, idx, "no model")
    /\ idx' = idx + 1
    /\ UNCHANGED <<calc, pnodes, user_lat, model_file, use_ai_model, ai_model, ppc,
                   max_nodes, selected>>
    /\ UNCHANGED notScorerVars

\* line 156: the map is returned
ReturnPriorities ==
    /\ ppc = "loop"
    /\ idx > Len(pnodes)
    /\ ppc' = "done"
    /\ UNCHANGED <<calc, pnodes, user_lat, model_file, use_ai_model, ai_model,
                   priorities, idx, outcomes, max_nodes, selected>>
    /\ UNCHANGED notScorerVars

\* mutant of InsertByScore: the pair goes before the pairs of equal score
InsertByScore_BeforeEqual(sorted, pair) ==
    LET k == Cardinality({i \in 1..Len(sorted) : sorted[i].score > pair.score})
    IN SubSeq(sorted, 1, k) \o <<pair>> \o SubSeq(sorted, k + 1, Len(sorted))

\* where list.sort(key=score, reverse=True) puts a pair among the pairs that
\* precede it in the list: after every pair whose score is not lower (the
\* sort is stable, also with reverse=True)
InsertByScore(sorted, pair) ==
    LET k == Cardinality({i \in 1..Len(sorted) : sorted[i].score >= pair.score})
    IN SubSeq(sorted, 1, k) \o <<pair>> \o SubSeq(sorted, k + 1, Len(sorted))

\* node_priorities.sort(key=lambda x: x[1], reverse=True), line 251
RECURSIVE SortByScore(_, _)
SortByScore(pairs, n) ==
    IF n = 0 THEN <<>>
    ELSE InsertByScore(SortByScore(pairs, n - 1), pairs[n])

\* mutant of TakeFirst: one pair fewer (node_priorities[:max_nodes - 1])
TakeFirst_OneLess(seq, n) ==
    SubSeq(seq, 1, IF n - 1 < Len(seq) THEN n - 1 ELSE Len(seq))

\* seq[:n] for n >= 0
TakeFirst(seq, n) == SubSeq(seq, 1, IF n < Len(seq) THEN n ELSE Len(seq))

\* select_top_priority_nodes lines 246-254, after its call of
\* calculate_node_priorities (line 244, which leaves use_ai_model at its
\* default True) has returned
SelectTopNodes ==
    /\ ppc = "done"
    /\ use_ai_model
    /\ LET node_priorities == [k \in 1..Len(pnodes) |->
                                  [id |-> k, score |-> Get(priorities, k, 0)]]
       IN selected' = TakeFirst(SortByScore(node_priorities, Len(node_priorities)),
                                max_nodes)
    /\ ppc' = "selected"
    /\ UNCHANGED <<calc, pnodes, user_lat, model_file, use_ai_model, ai_model,
                   priorities, idx, outcomes, max_nodes>>
    /\ UNCHANGED notScorerVars

ScorerNext ==
    \/ LoadModel
    \/ ScoreNode
    \/ ReturnPriorities
    \/ SelectTopNodes

\* ------------------------------------------- training and the model store
MaxSamples == 10
MaxChunks == 2
NumReaders == 2

\* the thresholds of train_from_db: lines 137 and 151
MinSamples == 5
SplitSamples == 10

\* the columns of a row of _extract_features_df, in the order the dict is
\* built (train_model.py lines 103-123)
RowColumns ==
    <<"node_id", "latitude", "longitude", "distance_from_user", "temperature",
      "humidity", "gas_level", "waste_level", "mean_temperature",
      "std_temperature", "mean_humidity", "std_humidity", "mean_gas", "std_gas",
      "mean_waste", "std_waste", "hour", "day_of_week", "priority_score">>

\* feature_cols of train_from_db (lines 141-145): what the model is fitted on
feature_cols ==
    <<"distance_from_user", "temperature", "humidity", "gas_level", "waste_level",
      "mean_temperature", "std_temperature", "mean_humidity", "std_humidity",
      "mean_gas", "std_gas", "mean_waste", "std_waste", "hour", "day_of_week">>

\* the list _predict_priority_with_ai passes to model.predict (lines 192-208),
\* each entry named by the field it stands for
ScoringFeatures ==
    <<"distance_from_user", "temperature", "humidity", "gas_level", "waste_level",
      "mean_temperature", "std_temperature", "mean_humidity", "std_humidity",
      "mean_gas", "std_gas", "mean_waste", "std_waste", "hour", "day_of_week">>

\* [c for c in cols if c not in ('node_id',)]
WithoutNodeId(cols) == SelectSeq(cols, LAMBDA c : c # "node_id")

\* the columns api_predict_cost passes to model.predict (views.py lines
\* 172-175): every column of the frame but node_id; a frame without rows has
\* no columns
PredictCostFeatures(n) == IF n = 0 THEN <<>> ELSE WithoutNodeId(RowColumns)

\* the nodes with readings, a fixed list of which the database holds the
\* first n_samples: latitudes (0 m, 1000 m, 9000 m from the reference point,
\* and a node whose stored latitude is nan) and latest readings
SampleLats == <<0, 1, 9, NaN>>

SampleReadings ==
    << [waste_level |-> 5, gas_level |-> 5, temperature |-> 25, humidity |-> 50],
       [waste_level |-> 30, gas_level |-> 30, temperature |-> -40, humidity |-> 300],
       [waste_level |-> -5, gas_level |-> 0, temperature |-> 25, humidity |-> 50],
       [waste_level |-> 5, gas_level |-> 5, temperature |-> -40, humidity |-> 300],
       [waste_level |-> 30, gas_level |-> 30, temperature |-> 25, humidity |-> 50],
       [waste_level |-> -5, gas_level |-> 0, temperature |-> -40, humidity |-> 300] >>

SampleLat(i) == SampleLats[((i - 1) % Len(SampleLats)) + 1]
SampleReading(i) == SampleReadings[((i - 1) % Len(SampleReadings)) + 1]

\* _haversine_distance(user_lat, user_lng, node.latitude, node.longitude) in
\* metres; nan when the latitude is nan
SampleDistance(i) ==
    IF SampleLat(i) = NaN THEN NaN
    ELSE StepMeters * haversine_distance(0, SampleLat(i))

\* mutant of calculate_priority_score: the waste and gas weights swapped
calculate_priority_score_SwappedWeights(distance_m, waste_level, gas_level, temperature, humidity) ==
    LET distance_norm == PyMax(0, PyMin(TermScale, DistanceRatio(distance_m, 2000)))
        distance_priority == TermScale - distance_norm
        waste_priority == Clamp01((waste_level * TermScale) \div 10, TermScale)
        gas_priority == Clamp01((gas_level * TermScale) \div 10, TermScale)
        temp_deviation == (Abs(temperature - 25) * TermScale) \div 15
        temp_priority == Clamp01(temp_deviation, TermScale)
        humidity_priority == Clamp01(((humidity - 50) * TermScale) \div 50, TermScale)
        priority == 25 * distance_priority
                    + 25 * waste_priority
                    + 35 * gas_priority
                    + 10 * temp_priority
                    + 5 * humidity_priority
    IN Clamp01(priority, FullScore)

\* _calculate_priority_score (train_model.py lines 23-59): the weights in
\* percent, the distance clamped as max(0.0, min(1.0, distance_m / 2000.0))
calculate_priority_score(distance_m, waste_level, gas_level, temperature, humidity) ==
    LET distance_norm == PyMax(0, PyMin(TermScale, DistanceRatio(distance_m, 2000)))
        distance_priority == TermScale - distance_norm
        waste_priority == Clamp01((waste_level * TermScale) \div 10, TermScale)
        gas_priority == Clamp01((gas_level * TermScale) \div 10, TermScale)
        temp_deviation == (Abs(temperature - 25) * TermScale) \div 15
        temp_priority == Clamp01(temp_deviation, TermScale)
        humidity_priority == Clamp01(((humidity - 50) * TermScale) \div 50, TermScale)
        priority == 25 * distance_priority
                    + 35 * waste_priority
                    + 25 * gas_priority
                    + 10 * temp_priority
                    + 5 * humidity_priority
    IN Clamp01(priority, FullScore)

\* _extract_features_df (lines 61-127): one row per node with readings; of
\* the row, the columns the model uses numerically
extract_features_df(n) ==
    [i \in 1..n |->
        [node_id |-> i,
         distance_from_user |-> SampleDistance(i),
         waste_level |-> SampleReading(i).waste_level,
         gas_level |-> SampleReading(i).gas_level,
         temperature |-> SampleReading(i).temperature,
         humidity |-> SampleReading(i).humidity,
         priority_score |-> calculate_priority_score(SampleDistance(i),
                                SampleReading(i).waste_level, SampleReading(i).gas_level,
                                SampleReading(i).temperature, SampleReading(i).humidity)]]

\* mutant of SplitsOf: the rows are split whatever their number
SplitsOf_AlwaysSplit(n) ==
    {[train |-> (1..n) \ test, test |-> test] :
        test \in {t \in SUBSET (1..n) : Cardinality(t) = (n + 4) \div 5}}

\* lines 151-157: the (train, test) row sets train_from_db can end up with.
\* From SplitSamples rows on, train_test_split(test_size=0.2) shuffles the
\* rows and cuts off ceil(0.2 * n) of them for the test set (which rows
\* depends on the generator: any subset of that size); below, both are all
\* the rows.
SplitsOf(n) ==
    IF n >= SplitSamples
    THEN {[train |-> (1..n) \ test, test |-> test] :
             test \in {t \in SUBSET (1..n) : Cardinality(t) = (n + 4) \div 5}}
    ELSE {[train |-> 1..n, test |-> 1..n]}

\* the version string of the metadata (line 176): fixed by the default
\* n_estimators and random_state
ModelVersion == "rf_priority_100_42"

NoFile == [kind |-> "absent"]

\* a model file written by the run `run`, of which `chunks` of MaxChunks
\* parts are on disk
ModelFile(run, chunks) == [kind |-> "file", run |-> run, chunks |-> chunks]

MetaFile(run) == [kind |-> "meta", run |-> run, version |-> ModelVersion]

Readers == 1..NumReaders

\* the requests that read the store: scoring (calculate_node_priorities) and
\* api_predict_cost, in turn
ReaderKind(r) == IF r % 2 = 1 THEN "score" ELSE "predict_cost"

TrainInit ==
    /\ n_samples \in 0..MaxSamples
    /\ df = <<>>
    /\ X_train = {}
    /\ X_test = {}
    /\ tpc = "call"
    /\ train_result = [kind |-> "none"]
    /\ \/ stored_model = NoFile /\ stored_meta = NoFile
       \/ stored_model = ModelFile("previous", MaxChunks) /\ stored_meta = MetaFile("previous")
    /\ rpc = [r \in Readers |-> "call"]
    /\ rmodel = [r \in Readers |-> "unset"]
    /\ rversion = [r \in Readers |-> [version |-> "unset", run |-> "none"]]
    /\ rfeatures = [r \in Readers |-> <<>>]
    /\ rresp = [r \in Readers |-> "none"]

TrainIdle ==
    /\ n_samples = 0
    /\ df = <<>>
    /\ X_train = {}
    /\ X_test = {}
    /\ tpc = "idle"
    /\ train_result = [kind |-> "none"]
    /\ stored_model = NoFile
    /\ stored_meta = NoFile
    /\ rpc = <<>>
    /\ rmodel = <<>>
    /\ rversion = <<>>
    /\ rfeatures = <<>>
    /\ rresp = <<>>

\* mutant of TrainFromDb: the check of line 137 is left out
TrainFromDb_NoSizeCheck ==
    /\ tpc = "call"
    /\ df' = extract_features_df(n_samples)
    /\ IF n_samples = 0
       THEN /\ train_result' = [kind |-> "error", error |-> "ValueError",
                                message |-> "No sensor data available to train."]
            /\ tpc' = "raised"
            /\ UNCHANGED <<X_train, X_test>>
       ELSE /\ \E split \in SplitsOf(n_samples) :
                  /\ X_train' = split.train
                  /\ X_test' = split.test
            /\ tpc' = "fitted"
            /\ UNCHANGED train_result
    /\ UNCHANGED <<n_samples, stored_model, stored_meta, rpc, rmodel, rversion,
                   rfeatures, rresp>>
    /\ UNCHANGED notTrainVars

\* train_from_db lines 133-185: the rows, the two checks, the split, the fit
\* and the validation
TrainFromDb ==
    /\ tpc = "call"
    /\ df' = extract_features_df(n_samples)
    /\ IF n_samples = 0
       THEN /\ train_result' = [kind |-> "error", error |-> "ValueError",
                                message |-> "No sensor data available to train."]
            /\ tpc' = "raised"
            /\ UNCHANGED <<X_train, X_test>>
       ELSE IF n_samples < MinSamples
       THEN /\ train_result' = [kind |-> "error", error |-> "ValueError",
                                message |-> "Need at least 5 data points to train the model."]
            /\ tpc' = "raised"
            /\ UNCHANGED <<X_train, X_test>>
       ELSE /\ \E split \in SplitsOf(n_samples) :
                  /\ X_train' = split.train
                  /\ X_test' = split.test
            /\ tpc' = "fitted"
            /\ UNCHANGED train_result
    /\ UNCHANGED <<n_samples, stored_model, stored_meta, rpc, rmodel, rversion,
                   rfeatures, rresp>>
    /\ UNCHANGED notTrainVars

\* save_model line 13, joblib.dump opening the model file for writing: the
\* file exists and is empty
DumpOpen ==
    /\ tpc = "fitted"
    /\ stored_model' = ModelFile("new", 0)
    /\ tpc' = "dumping"
    /\ UNCHANGED <<n_samples, df, X_train, X_test, train_result, stored_meta,
                   rpc, rmodel, rversion, rfeatures, rresp>>
    /\ UNCHANGED notTrainVars

\* joblib.dump writing the next part of the pickle; after the last one the
\* file is closed
DumpWrite ==
    /\ tpc = "dumping"
    /\ stored_model' = ModelFile("new", stored_model.chunks + 1)
    /\ tpc' = IF stored_model.chunks + 1 = MaxChunks THEN "dumped" ELSE "dumping"
    /\ UNCHANGED <<n_samples, df, X_train, X_test, train_result, stored_meta,
                   rpc, rmodel, rversion, rfeatures, rresp>>
    /\ UNCHANGED notTrainVars

\* save_model line 14: open(meta_path(), 'w') truncates the sidecar
MetaOpen ==
    /\ tpc = "dumped"
    /\ stored_meta' = [kind |-> "empty"]
    /\ tpc' = "meta"
    /\ UNCHANGED <<n_samples, df, X_train, X_test, train_result, stored_model,
                   rpc, rmodel, rversion, rfeatures, rresp>>
    /\ UNCHANGED notTrainVars

\* save_model line 15: json.dump and the close of the with block
MetaWrite ==
    /\ tpc = "meta"
    /\ stored_meta' = MetaFile("new")
    /\ tpc' = "saved"
    /\ UNCHANGED <<n_samples, df, X_train, X_test, train_result, stored_model,
                   rpc, rmodel, rversion, rfeatures, rresp>>
    /\ UNCHANGED notTrainVars

\* train_from_db lines 190-199
TrainReturn ==
    /\ tpc = "saved"
    /\ train_result' = [kind |-> "trained", version |-> ModelVersion,
                        n_samples |-> n_samples,
                        n_train |-> Cardinality(X_train),
                        n_test |-> Cardinality(X_test)]
    /\ tpc' = "done"
    /\ UNCHANGED <<n_samples, df, X_train, X_test, stored_model, stored_meta,
                   rpc, rmodel, rversion, rfeatures, rresp>>
    /\ UNCHANGED notTrainVars

\* load_model lines 18-19: Path(p).exists().  Without a file the scorer goes
\* on rule-based and api_predict_cost answers 'Model not found' (views.py
\* lines 159-160)
ReaderExists(r) ==
    /\ rpc[r] = "call"
    /\ IF stored_model = NoFile
       THEN /\ rmodel' = [rmodel EXCEPT ![r] = "None"]
            /\ rresp' = [rresp EXCEPT ![r] =
                            IF ReaderKind(r) = "score" THEN "rule-based" ELSE "error"]
            /\ rpc' = [rpc EXCEPT ![r] = "done"]
       ELSE /\ rpc' = [rpc EXCEPT ![r] = "load"]
            /\ UNCHANGED <<rmodel, rresp>>
    /\ UNCHANGED <<n_samples, df, X_train, X_test, tpc, train_result,
                   stored_model, stored_meta, rversion, rfeatures>>
    /\ UNCHANGED notTrainVars

\* load_model line 20: joblib.load reads what is in the file; of a file that
\* is not whole it gets a part of the pickle and raises, and neither caller
\* has the call inside a try block
ReaderLoad(r) ==
    /\ rpc[r] = "load"
    /\ IF stored_model.chunks = MaxChunks
       THEN /\ rmodel' = [rmodel EXCEPT ![r] = stored_model.run]
            /\ rpc' = [rpc EXCEPT ![r] = "loaded"]
            /\ UNCHANGED rresp
       ELSE /\ rmodel' = [rmodel EXCEPT ![r] = "torn"]
            /\ rresp' = [rresp EXCEPT ![r] = "raised"]
            /\ rpc' = [rpc EXCEPT ![r] = "done"]
    /\ UNCHANGED <<n_samples, df, X_train, X_test, tpc, train_result,
                   stored_model, stored_meta, rversion, rfeatures>>
    /\ UNCHANGED notTrainVars

\* api_predict_cost line 164, get_model_version (model_store.py lines 23-29):
\* 'unknown' without a sidecar; json.load of an empty sidecar raises inside
\* the try block of the view
ReaderVersion(r) ==
    /\ rpc[r] = "loaded"
    /\ ReaderKind(r) = "predict_cost"
    /\ IF stored_meta = NoFile
       THEN /\ rversion' = [rversion EXCEPT ![r] = [version |-> "unknown", run |-> "none"]]
            /\ rpc' = [rpc EXCEPT ![r] = "versioned"]
            /\ UNCHANGED rresp
       ELSE IF stored_meta.kind = "empty"
       THEN /\ rresp' = [rresp EXCEPT ![r] = "error"]
            /\ rpc' = [rpc EXCEPT ![r] = "done"]
            /\ UNCHANGED rversion
       ELSE /\ rversion' = [rversion EXCEPT ![r] =
                               [version |-> stored_meta.version, run |-> stored_meta.run]]
            /\ rpc' = [rpc EXCEPT ![r] = "versioned"]
            /\ UNCHANGED rresp
    /\ UNCHANGED <<n_samples, df, X_train, X_test, tpc, train_result,
                   stored_model, stored_meta, rmodel, rfeatures>>
    /\ UNCHANGED notTrainVars

\* the call of model.predict: _predict_priority_with_ai lines 192-211 for a
\* scoring request, views.py lines 172-175 for api_predict_cost.  predict
\* raises when the vector has not the number of features the model was
\* fitted on; the scorer then falls back (lines 216-224), the view answers
\* with the error (lines 192-193)
ReaderPredict(r) ==
    /\ \/ rpc[r] = "loaded" /\ ReaderKind(r) = "score"
       \/ rpc[r] = "versioned" /\ ReaderKind(r) = "predict_cost"
    /\ LET features == IF ReaderKind(r) = "score" THEN ScoringFeatures
                       ELSE PredictCostFeatures(n_samples)
       IN /\ rfeatures' = [rfeatures EXCEPT ![r] = features]
          /\ rresp' = [rresp EXCEPT ![r] =
                          IF Len(features) = Len(feature_cols) THEN "predicted"
                          ELSE IF ReaderKind(r) = "score" THEN "rule-based"
                          ELSE "error"]
    /\ rpc' = [rpc EXCEPT ![r] = "done"]
    /\ UNCHANGED <<n_samples, df, X_train, X_test, tpc, train_result,
                   stored_model, stored_meta, rmodel, rversion>>
    /\ UNCHANGED notTrainVars

TrainNext ==
    \/ TrainFromDb
    \/ DumpOpen
    \/ DumpWrite
    \/ MetaOpen
    \/ MetaWrite
    \/ TrainReturn
    \/ \E r \in Readers : ReaderExists(r)
    \/ \E r \in Readers : ReaderLoad(r)
    \/ \E r \in Readers : ReaderVersion(r)
    \/ \E r \in Readers : ReaderPredict(r)

\* ------------------------------------------------ compute_optimal_route
\* the key of the virtual source, 'user_location' (line 138): an id no node has
UserLocation == 0 - 1

\* the urgency scores the route is planned with, in tenths
OptScoreTenths == {2, 12}

NoLocation == [kind |-> "none"]

RECURSIVE Gcd(_, _)
Gcd(a, b) == IF b = 0 THEN a ELSE Gcd(b, a % b)

Lcm(a, b) == (a * b) \div Gcd(a, b)

RECURSIVE LcmOf(_)
LcmOf(S) ==
    IF S = {} THEN 1
    ELSE LET x == CHOOSE y \in S : TRUE
         IN Lcm(x, LcmOf(S \ {x}))

\* The search adds and compares the float weights.  The model does the same
\* on whole numbers: every weight n/m of the graph counted in units of
\* 1/GraphScale, a common multiple of the denominators.
GraphScale(g) ==
    LcmOf({RatDen(g[u][k][2]) : <<u, k>> \in
              {x \in (DOMAIN g) \X (1..Cardinality(DOMAIN g)) : x[2] <= Len(g[x[1]])}})

ScaledWeight(w, scale) == RatNum(w) * (scale \div RatDen(w))

ScaledGraph(g) ==
    LET scale == GraphScale(g)
    IN [u \in DOMAIN g |->
           [k \in 1..Len(g[u]) |-> <<g[u][k][1], ScaledWeight(g[u][k][2], scale)>>]]

\* mutant of VirtualEdges: the first node gets no edge
VirtualEdges_SkipFirst(ns, priority_scores, alpha, lat) ==
    [k \in 1..(Len(ns) - 1) |->
        <<ns[k + 1].id,
          calculate_edge_weight(haversine_distance(lat, ns[k + 1].lat),
                                Get(priority_scores, ns[k + 1].id, 0), alpha)>>]

\* lines 139-149: the adjacency list of the virtual source, one edge to every
\* node in list order
VirtualEdges(ns, priority_scores, alpha, lat) ==
    [k \in 1..Len(ns) |->
        <<ns[k].id,
          calculate_edge_weight(haversine_distance(lat, ns[k].lat),
                                Get(priority_scores, ns[k].id, 0), alpha)>>]

\* the weight of the first edge u -> v in the adjacency list of u, 0.0 when
\* there is none: next((w for (nb, w) in graph[u] if nb == v), 0.0) in
\* views.py line 229, the loop of views_backup.py lines 392-396
EdgeLookup(g, u, v) ==
    LET hits == {k \in 1..Len(g[u]) : g[u][k][1] = v}
    IN IF hits = {} THEN Rat(0, 1) ELSE g[u][SetMin(hits)][2]

\* mutant of LeastKeyed: the minimum is taken over all the keys of d
LeastKeyed_OverAllKeys(S, d) ==
    {x \in DOMAIN d : \A y \in DOMAIN d : d[x] <= d[y]}

\* min(unvisited, key=lambda nid: d.get(nid, float('inf'))): an element of
\* least key; which one of several is the set's iteration order
LeastKeyed(S, d) ==
    {x \in S : \A y \in S : Get(d, x, Infinity) <= Get(d, y, Infinity)}

OptInit ==
    /\ \/ onodes = <<>> /\ oscores = <<>>
       \/ \E lats \in InputNodeLists :
             /\ onodes = [i \in DOMAIN lats |-> [id |-> i, lat |-> lats[i]]]
             /\ oscores \in [DOMAIN lats -> OptScoreTenths]
    /\ oalpha \in AlphaTenths
    /\ \/ /\ user_location \in {[kind |-> "location", lat |-> l] : l \in 0..MaxPos}
          /\ source_node_id = None
       \/ /\ user_location = NoLocation
          /\ source_node_id \in {None} \cup (1..(Len(onodes) + 1))
    /\ ograph = <<>>
    /\ osource = None
    /\ odistances = <<>>
    /\ unvisited = {}
    /\ opath = <<>>
    /\ ototal = 0
    /\ ocurrent = None
    /\ opc = "call"
    /\ oresult = NoResult
    /\ orecord = NoResult

OptIdle ==
    /\ onodes = <<>>
    /\ oscores = <<>>
    /\ oalpha = 0
    /\ user_location = NoLocation
    /\ source_node_id = None
    /\ ograph = <<>>
    /\ osource = None
    /\ odistances = <<>>
    /\ unvisited = {}
    /\ opath = <<>>
    /\ ototal = 0
    /\ ocurrent = None
    /\ opc = "idle"
    /\ oresult = NoResult
    /\ orecord = NoResult

\* lines 129-166: the check of the node list, the graph, the virtual source,
\* the choice of the source and the search from it
OptBuild ==
    /\ opc = "call"
    /\ IF onodes = <<>>
       THEN /\ oresult' = [kind |-> "raised", error |-> "ValueError"]
            /\ opc' = "raised"
            /\ UNCHANGED <<ograph, osource, odistances, unvisited, ocurrent>>
       ELSE LET b == build_priority_graph(onodes, oscores, oalpha)
                virtual == user_location # NoLocation
                g == IF b.kind # "graph" THEN <<>>
                     ELSE IF virtual
                     THEN Put(b.edges, UserLocation,
                              VirtualEdges(onodes, oscores, oalpha, user_location.lat))
                     ELSE b.edges
                src == IF virtual THEN UserLocation
                       ELSE IF source_node_id # None THEN source_node_id
                       ELSE onodes[1].id
            IN IF b.kind # "graph" \/ Raises(g)
               THEN /\ oresult' = [kind |-> "raised", error |-> "ZeroDivisionError"]
                    /\ opc' = "raised"
                    /\ UNCHANGED <<ograph, osource, odistances, unvisited, ocurrent>>
               ELSE /\ ograph' = g
                    /\ osource' = src
                    /\ odistances' = dijkstra(ScaledGraph(g), src).dist
                    /\ unvisited' = {onodes[i].id : i \in 1..Len(onodes)}
                    /\ ocurrent' = src
                    /\ opc' = IF virtual THEN "first" ELSE "loop"
                    /\ UNCHANGED oresult
    /\ opath' = <<>>
    /\ ototal' = 0
    /\ UNCHANGED <<onodes, oscores, oalpha, user_location, source_node_id>>
    /\ UNCHANGED orecord
    /\ UNCHANGED notOptVars

\* lines 169-174: from the virtual source to the best first node
OptFirst ==
    /\ opc = "first"
    /\ \E best_first \in LeastKeyed(unvisited, odistances) :
          /\ opath' = Append(opath, best_first)
          /\ ototal' = Plus(ototal, Get(odistances, best_first, 0))
          /\ ocurrent' = best_first
          /\ unvisited' = unvisited \ {best_first}
    /\ opc' = "loop"
    /\ UNCHANGED <<onodes, oscores, oalpha, user_location, source_node_id,
                   ograph, osource, odistances, oresult>>
    /\ UNCHANGED orecord
    /\ UNCHANGED notOptVars

\* one iteration of the loop of lines 177-187
OptVisit ==
    /\ opc = "loop"
    /\ unvisited # {}
    /\ LET current_distances == dijkstra(ScaledGraph(ograph), ocurrent).dist
       IN \E next_node \in LeastKeyed(unvisited, current_distances) :
             /\ opath' = Append(opath, next_node)
             /\ ototal' = Plus(ototal, Get(current_distances, next_node, 0))
             /\ ocurrent' = next_node
             /\ unvisited' = unvisited \ {next_node}
    /\ UNCHANGED <<onodes, oscores, oalpha, user_location, source_node_id,
                   ograph, osource, odistances, opc, oresult>>
    /\ UNCHANGED orecord
    /\ UNCHANGED notOptVars

\* lines 189-196: total_cost is the sum counted in units of 1/GraphScale
\* (Infinity when a distance added was inf)
OptReturn ==
    /\ opc = "loop"
    /\ unvisited = {}
    /\ oresult' = [kind |-> "route", path |-> opath,
                   total_cost |-> Rat(ototal, GraphScale(ograph)),
                   alpha |-> oalpha,
                   priority_scores |-> oscores,
                   source_type |-> IF user_location # NoLocation THEN "user_location"
                                   ELSE "node",
                   graph_edges |-> ograph]
    /\ opc' = "done"
    /\ UNCHANGED <<onodes, oscores, oalpha, user_location, source_node_id,
                   ograph, osource, odistances, unvisited, opath, ototal, ocurrent>>
    /\ UNCHANGED orecord
    /\ UNCHANGED notOptVars

\* views_backup.api_compute_route lines 384-416: the edges looked up in
\* graph_edges between consecutive path entries (weight 0.0 when there is
\* none), the route data and the total cost of the CollectionRoute row
OptRecord ==
    /\ opc = "done"
    /\ orecord' = [kind |-> "record",
                   path |-> oresult.path,
                   edges |-> [i \in 1..(Len(oresult.path) - 1) |->
                                 [u |-> oresult.path[i], v |-> oresult.path[i + 1],
                                  w |-> EdgeLookup(oresult.graph_edges,
                                                   oresult.path[i], oresult.path[i + 1])]],
                   alpha |-> oalpha,
                   priority_scores |-> oscores,
                   source |-> oresult.source_type,
                   total_cost |-> oresult.total_cost]
    /\ opc' = "recorded"
    /\ UNCHANGED <<onodes, oscores, oalpha, user_location, source_node_id,
                   ograph, osource, odistances, unvisited, opath, ototal, ocurrent,
                   oresult>>
    /\ UNCHANGED notOptVars

OptNext ==
    \/ OptBuild
    \/ OptFirst
    \/ OptVisit
    \/ OptReturn
    \/ OptRecord

\* ------------------------------------------------- views.api_compute_route
\* the latest predicted cost of a node (0.0 without an AICost row), in tenths
ApiCostTenths == {0, 10}

\* mutant of IdsExcept: the source is not left out
IdsExcept_All(ns, src) == [i \in 1..Len(ns) |-> ns[i].id]

\* [n.id for n in nodes if n.id != source_node_id] (line 221)
IdsExcept(ns, src) ==
    LET ids == [i \in 1..Len(ns) |-> ns[i].id]
    IN SelectSeq(ids, LAMBDA id : id # src)

ApiInit ==
    /\ \/ nodes = <<>> /\ scores = <<>>
       \/ \E lats \in InputNodeLists :
             /\ nodes = [i \in DOMAIN lats |-> [id |-> i, lat |-> lats[i]]]
             /\ scores \in [DOMAIN lats -> ApiCostTenths]
    /\ alphaT \in AlphaTenths
    /\ built = [kind |-> "none"]
    /\ req_source \in {None, 2, Len(nodes) + 1}
    /\ req_targets \in SeqsUpTo(1..(Len(nodes) + 1), MaxTargets)
    /\ apc = "call"
    /\ api_response = [kind |-> "none"]
    /\ persisted = <<>>

ApiIdle ==
    /\ req_source = None
    /\ req_targets = <<>>
    /\ apc = "idle"
    /\ api_response = [kind |-> "none"]
    /\ persisted = <<>>

\* lines 198-223, up to the call of compute_route: the nodes, the graph
\* _build_graph gives for the request's alpha, the source and the targets
ApiBuild ==
    /\ apc = "call"
    /\ IF nodes = <<>>
       THEN /\ api_response' = [kind |-> "error", error |-> "No nodes available"]
            /\ apc' = "done"
            /\ UNCHANGED <<built, graph, source, targets, pc>>
       ELSE LET b == views_build_graph(nodes, scores, alphaT)
                src == IF req_source = None THEN nodes[1].id ELSE req_source
            IN /\ built' = b @@ [by |-> "_build_graph"]
               /\ graph' = ScaledGraph(b.edges)
               /\ source' = src
               /\ targets' = IF req_targets # <<>> THEN req_targets
                             ELSE IdsExcept(nodes, src)
               /\ pc' = "call"
               /\ apc' = "routing"
               /\ UNCHANGED api_response
    /\ UNCHANGED <<nodes, scores, alphaT, req_source, req_targets, persisted>>
    /\ UNCHANGED <<dist, prev, nearest, route_path, total_cost, current,
                   remaining, result>>
    /\ UNCHANGED notApiVars

\* lines 224-240, after compute_route has returned: the edges of the path
\* (graph[u] raises KeyError for a path entry that is no node), the
\* CollectionRoute row and the response; an exception gives the 400 response
ApiRespond ==
    /\ apc = "routing"
    /\ pc = "done"
    /\ LET path == IF result.kind = "route" THEN result.path ELSE <<>>
           cost == IF result.kind = "route" THEN result.total_cost ELSE 0
           raises == \E i \in 1..(Len(path) - 1) : path[i] \notin DOMAIN built.edges
       IN IF raises
          THEN /\ api_response' = [kind |-> "error", error |-> "KeyError"]
               /\ UNCHANGED persisted
          ELSE LET route_json ==
                       [path |-> path,
                        edges |-> [i \in 1..(Len(path) - 1) |->
                                      [u |-> path[i], v |-> path[i + 1],
                                       w |-> EdgeLookup(built.edges, path[i], path[i + 1])]],
                        alpha |-> alphaT]
                   row == [route_data |-> route_json,
                           total_cost |-> Rat(cost, GraphScale(built.edges))]
               IN /\ persisted' = Append(persisted, row)
                  /\ api_response' = [kind |-> "route", route |-> route_json,
                                      total_cost |-> row.total_cost,
                                      id |-> Len(persisted) + 1]
    /\ apc' = "done"
    /\ UNCHANGED <<nodes, scores, alphaT, built, req_source, req_targets>>
    /\ UNCHANGED routeVars
    /\ UNCHANGED notApiVars

ApiNext ==
    \/ ApiBuild
    \/ RouteNext
    \/ ApiRespond

\* ------------------------------------------------------ specifications
\* compute_route (and the dijkstra calls it makes) on the input graphs
Init == RouteInit /\ BuilderIdle /\ ScorerIdle /\ TrainIdle /\ OptIdle /\ ApiIdle

Next == RouteNext

Spec == Init /\ [][Next]_vars

\* the graph builders on the input node sets
BuilderSpecInit == BuilderInit /\ RouteIdle /\ ScorerIdle /\ TrainIdle /\ OptIdle /\ ApiIdle

SpecBuilder == BuilderSpecInit /\ [][BuilderNext]_vars

\* calculate_node_priorities on the input nodes and readings
ScorerSpecInit == ScorerInit /\ RouteIdle /\ BuilderIdle /\ TrainIdle /\ OptIdle /\ ApiIdle

SpecScorer == ScorerSpecInit /\ [][ScorerNext]_vars

\* one run of train_from_db with concurrent requests that read the store
TrainSpecInit == TrainInit /\ RouteIdle /\ BuilderIdle /\ ScorerIdle /\ OptIdle /\ ApiIdle

SpecTrain == TrainSpecInit /\ [][TrainNext]_vars

\* compute_optimal_route on the input node sets
OptSpecInit == OptInit /\ RouteIdle /\ BuilderIdle /\ ScorerIdle /\ TrainIdle /\ ApiIdle

SpecOptimal == OptSpecInit /\ [][OptNext]_vars

\* api_compute_route of views.py: the graph of the request's alpha, the call
\* of compute_route on it, the stored route
ApiSpecInit == ApiInit /\ RouteIdle /\ ScorerIdle /\ TrainIdle /\ OptIdle

SpecApi == ApiSpecInit /\ [][ApiNext]_vars

\* ------------------------------------------- reference shortest paths
\* (used by the properties only: the minimum over all simple paths)
Universe(g) == (DOMAIN g) \cup Vertices

EdgeWeights(g, u, v) ==
    {Get(g, u, <<>>)[i][2] : i \in {k \in 1..Len(Get(g, u, <<>>)) : Get(g, u, <<>>)[k][1] = v}}

IsEdge(g, u, v) == EdgeWeights(g, u, v) # {}

EdgeWeight(g, u, v) == SetMin(EdgeWeights(g, u, v))

\* simple paths of g that start at s and have at most k edges
RECURSIVE SimplePaths(_, _, _)
SimplePaths(g, s, k) ==
    IF k = 0 THEN {<<s>>}
    ELSE LET shorter == SimplePaths(g, s, k - 1)
         IN shorter \cup
            {Append(p, v) : <<p, v>> \in
                {x \in shorter \X Universe(g) :
                    /\ \A i \in 1..Len(x[1]) : x[1][i] # x[2]
                    /\ IsEdge(g, x[1][Len(x[1])], x[2])}}

RECURSIVE WalkCost(_, _)
WalkCost(g, p) ==
    IF Len(p) <= 1 THEN 0
    ELSE EdgeWeight(g, p[1], p[2]) + WalkCost(g, Tail(p))

IsWalk(g, p) == \A i \in 1..(Len(p) - 1) : IsEdge(g, p[i], p[i + 1])

TrueDist(g, s, v) ==
    LET costs == {WalkCost(g, p) : p \in {q \in SimplePaths(g, s, Cardinality(Universe(g)) - 1) :
                                            q[Len(q)] = v}}
    IN IF costs = {} THEN Infinity ELSE SetMin(costs)

Occurrences(seq, x) == Cardinality({i \in 1..Len(seq) : seq[i] = x})

\* ------------------------------------------------------------- claims
\* C1: the distance map dijkstra returns gives, for every vertex, the minimum
\* total weight over all paths from the source (0 for the source, infinity
\* when there is no path).  Checked on the tree compute_route returns and on
\* the map every loop iteration computes from the current position.
C1_DijkstraDistancesAreMinimal ==
    /\ result.kind = "tree" =>
         \A v \in Universe(graph) :
            Get(result.distances, v, Infinity) = TrueDist(graph, source, v)
    /\ pc = "traverse" =>
         \A v \in Universe(graph) :
            Get(dist, v, Infinity) = TrueDist(graph, current, v)

\* a two-edge path beats the direct edge
C1_Witness ==
    /\ result.kind = "tree"
    /\ \E v \in DOMAIN graph :
         /\ IsEdge(graph, source, v)
         /\ result.distances[v] < EdgeWeight(graph, source, v)

\* C2 (the claim as stated): a target with no finite-cost path from the
\* position it is selected at makes compute_route fail, so no returned route
\* has an infinite total_cost.
C2_NoRouteWithInfiniteCost ==
    result.kind = "route" => result.total_cost # Infinity

\* "all targets are reachable": every target is reachable from the source,
\* and in the greedy order (nearest remaining target first, the earliest on a
\* tie) each target is at a finite distance from the position it is selected at
RECURSIVE StepsReachable(_, _, _)
StepsReachable(g, cur, rem) ==
    \/ rem = <<>>
    \/ LET i == CHOOSE k \in 1..Len(rem) :
                  /\ \A j \in 1..Len(rem) : TrueDist(g, cur, rem[k]) <= TrueDist(g, cur, rem[j])
                  /\ \A j \in 1..(k - 1) : TrueDist(g, cur, rem[j]) > TrueDist(g, cur, rem[k])
       IN /\ TrueDist(g, cur, rem[i]) # Infinity
          /\ StepsReachable(g, rem[i], RemoveAt(rem, i))

TargetsReachable ==
    /\ \A i \in 1..Len(targets) : TrueDist(graph, source, targets[i]) # Infinity
    /\ StepsReachable(graph, source, targets)

\* C3 (the claim as stated): when all targets are reachable each requested
\* target occurs exactly once in the returned path.

C3_EachTargetExactlyOnce ==
    (result.kind = "route" /\ TargetsReachable) =>
        \A i \in 1..Len(targets) : Occurrences(result.path, targets[i]) = 1

\* C3 (amended): every requested target occurs at least once in the returned
\* path.
C3_EachTargetAtLeastOnce ==
    result.kind = "route" =>
        \A i \in 1..Len(targets) : Occurrences(result.path, targets[i]) >= 1

\* two different reachable targets, routed over at least two edges
C3_Witness ==
    /\ result.kind = "route"
    /\ TargetsReachable
    /\ Len(targets) = 2
    /\ targets[1] # targets[2]
    /\ Len(result.path) >= 3
    /\ \E i \in 1..(Len(result.path) - 1) :
          EdgeWeight(graph, result.path[i], result.path[i + 1]) = 0

\* C4 (the claim as stated): with a non-empty target list the returned path
\* starts at the source and never repeats a vertex in consecutive places.
C4_PathStartsAtSourceNoRepeat ==
    result.kind = "route" =>
        /\ result.path # <<>>
        /\ result.path[1] = source
        /\ \A i \in 1..(Len(result.path) - 1) : result.path[i] # result.path[i + 1]

\* C5: when all targets are reachable every consecutive
\* pair of the returned path is an edge of the graph and total_cost is the sum
\* of the weights of those edges; the test's graph, source 1, targets [3]
\* gives path [1,2,3] and total_cost 3.
C5_PathFollowsEdgesAndCostIsTheirSum ==
    /\ (result.kind = "route" /\ TargetsReachable) =>
          /\ IsWalk(graph, result.path)
          /\ result.total_cost = WalkCost(graph, result.path)
    /\ (result.kind = "route" /\ graph = TestGraph /\ source = 1 /\ targets = <<3>>) =>
          /\ result.path = <<1, 2, 3>>
          /\ result.total_cost = 3

C5_Witness ==
    /\ result.kind = "route"
    /\ graph = TestGraph
    /\ source = 1
    /\ targets = <<3>>
    /\ result.path = <<1, 2, 3>>

\* two targets, the second reached over two edges of positive weight
C5_TwoTargetWitness ==
    /\ result.kind = "route"
    /\ TargetsReachable
    /\ Len(targets) = 2
    /\ Len(result.path) = 4
    /\ result.total_cost >= 3

\* C6: at every step the target chosen is the unvisited target at minimal
\* shortest-path distance from the current position, the earliest in the list
\* among those at that distance; the current position is the source at first
\* and afterwards the target chosen last.
C6_GreedyNearestFromCurrent ==
    /\ pc = "select" =>
          current = (IF Len(remaining) = Len(targets) THEN source ELSE nearest)
    /\ pc = "traverse" =>
          \E i \in 1..Len(remaining) :
             /\ nearest = remaining[i]
             /\ \A j \in 1..Len(remaining) :
                   TrueDist(graph, current, remaining[i]) <= TrueDist(graph, current, remaining[j])
             /\ \A j \in 1..(i - 1) :
                   TrueDist(graph, current, remaining[j]) > TrueDist(graph, current, remaining[i])

\* a second step, from a position that is not the source, to a target whose
\* distance from there differs from its distance from the source
C6_Witness ==
    /\ pc = "traverse"
    /\ current # source
    /\ TrueDist(graph, current, nearest) # TrueDist(graph, source, nearest)
    /\ TrueDist(graph, current, nearest) # Infinity

\* a first step with two targets at the same distance
C6_TieWitness ==
    /\ pc = "traverse"
    /\ Len(remaining) = 2
    /\ remaining[1] # remaining[2]
    /\ TrueDist(graph, current, remaining[1]) = TrueDist(graph, current, remaining[2])

\* the path reconstruct_path gives for t from the predecessor map p of a
\* search from s that found the distances d
RoundTrips(g, s, d, p, t) ==
    LET path == reconstruct_path(p, t)
    IN /\ path # <<>>
       /\ path[1] = s
       /\ path[Len(path)] = t
       /\ IsWalk(g, path)
       /\ WalkCost(g, path) = Get(d, t, Infinity)

\* C14: for every vertex t reachable from the source, reconstruct_path(prev, t)
\* on dijkstra's predecessor map starts at the source, ends at t, follows
\* edges of the graph, and the weights along it sum to dist[t].  Checked on
\* the tree compute_route returns and on the maps of every loop iteration.
C14_ReconstructedPathSumsToDistance ==
    /\ result.kind = "tree" =>
         \A t \in Universe(graph) :
            TrueDist(graph, source, t) # Infinity =>
               RoundTrips(graph, source, result.distances, result.tree_prev, t)
    /\ pc = "traverse" =>
         \A t \in Universe(graph) :
            TrueDist(graph, current, t) # Infinity =>
               RoundTrips(graph, current, dist, prev, t)

\* a vertex reached over two edges of positive weight, cheaper than its
\* direct edge
C14_Witness ==
    /\ result.kind = "tree"
    /\ \E t \in DOMAIN graph :
         /\ Len(reconstruct_path(result.tree_prev, t)) = 3
         /\ IsEdge(graph, source, t)
         /\ result.distances[t] >= 2
         /\ result.distances[t] < EdgeWeight(graph, source, t)

\* ---------------------------------------------------- claims: builders
NodeIds == {nodes[i].id : i \in 1..Len(nodes)}

LatOf(u) == nodes[CHOOSE i \in 1..Len(nodes) : nodes[i].id = u].lat

\* the ordered pairs (u, v), u # v, of the built graph
BuiltPairs == {p \in NodeIds \X NodeIds : p[1] # p[2]}

BaseDistance(p) == haversine_distance(LatOf(p[1]), LatOf(p[2]))

BuiltByPriority == built.kind = "graph" /\ built.by = "build_priority_graph"

\* C7 (the claim as stated): with alpha > 0, of two destinations reached over
\* the same base distance the one with the strictly higher urgency score gets
\* the strictly lower inbound edge weight.
C7_HigherUrgencyLowerWeight ==
    (BuiltByPriority /\ alphaT > 0) =>
        \A p \in BuiltPairs : \A q \in BuiltPairs :
            (BaseDistance(p) = BaseDistance(q) /\ scores[p[2]] > scores[q[2]]) =>
                RatLess(BuiltWeight(built.edges, p[1], p[2]),
                        BuiltWeight(built.edges, q[1], q[2]))

\* C7 (amended): with alpha > 0, of two destinations reached over the same
\* non-zero base distance, with urgency scores in [0, 1], the one with the
\* strictly higher score gets the strictly lower inbound edge weight.
C7_HigherUrgencyLowerWeightAtDistance ==
    (BuiltByPriority /\ alphaT > 0) =>
        \A p \in BuiltPairs : \A q \in BuiltPairs :
            (/\ BaseDistance(p) = BaseDistance(q)
             /\ BaseDistance(p) > 0
             /\ scores[p[2]] \in 0..10
             /\ scores[q[2]] \in 0..10
             /\ scores[p[2]] > scores[q[2]]) =>
                RatLess(BuiltWeight(built.edges, p[1], p[2]),
                        BuiltWeight(built.edges, q[1], q[2]))

C7_Witness ==
    /\ BuiltByPriority
    /\ alphaT > 0
    /\ \E p \in BuiltPairs : \E q \in BuiltPairs :
          /\ p[2] # q[2]
          /\ BaseDistance(p) = BaseDistance(q)
          /\ BaseDistance(p) > 0
          /\ scores[p[2]] = 9
          /\ scores[q[2]] = 2

\* C8 (the test test_inverse_priority_weight): two nodes A, B at non-zero
\* distance, alpha 0.5: the weight of A -> B built by views._build_graph with
\* priorities A 0.2, B 0.9 is strictly less than with them swapped.
C8_ViewsGraphFavoursHighPriority ==
    (/\ built.kind = "graph"
     /\ built.by = "_build_graph"
     /\ Len(nodes) = 2
     /\ nodes[1].lat # nodes[2].lat
     /\ alphaT = 5
     /\ scores = <<2, 9>>) =>
        RatLess(BuiltWeight(built.edges, 1, 2),
                BuiltWeight(views_build_graph(nodes, <<9, 2>>, alphaT).edges, 1, 2))

\* C9 (the claim as stated): whatever the node set, the scores and alpha, the
\* builder returns a graph and every edge weight of it is non-negative.
C9_BuiltWeightsNonNegative ==
    built.kind # "none" =>
        /\ built.kind = "graph"
        /\ \A p \in BuiltPairs : ~RatNegative(BuiltWeight(built.edges, p[1], p[2]))

\* ------------------------------------------------------ claims: scorer
\* C10: every value of the map calculate_node_priorities builds and returns
\* lies in [0.0, 1.0], whatever the sensor values and whether it came from
\* the rule-based formula, the model's prediction or the no-reading default.
C10_PrioritiesWithinUnitInterval ==
    \A k \in DOMAIN priorities : priorities[k] >= 0 /\ priorities[k] <= FullScore

\* the map is returned with a rule-based score of a reading whose levels are
\* out of range (waste 3.0, gas 3.0, humidity 300 %)
C10_Witness ==
    /\ ppc = "done"
    /\ ai_model = "None"
    /\ \E k \in DOMAIN priorities :
          /\ pnodes[k].reading # NoReading
          /\ pnodes[k].reading.waste_level = 30
          /\ pnodes[k].reading.gas_level = 30
          /\ pnodes[k].reading.humidity = 300
          /\ priorities[k] = FullScore

\* the map is returned with a model prediction and a no-reading default
C10_ModelWitness ==
    /\ ppc = "done"
    /\ ai_model = "model"
    /\ Len(pnodes) = 2
    /\ pnodes[1].reading = NoReading
    /\ pnodes[2].reading # NoReading
    /\ priorities[1] = 0
    /\ priorities[2] = (3 * FullScore) \div 10

\* the rule-based formula's value for node k
RuleBasedScore(k) ==
    calculate_single_priority(calc, DistanceFromUser(pnodes[k]),
                              pnodes[k].reading.waste_level, pnodes[k].reading.gas_level,
                              pnodes[k].reading.temperature, pnodes[k].reading.humidity)

\* C11 (the claim as stated): calculate_node_priorities never leaves with an
\* error, also when the stored model cannot be loaded, and a node scored
\* without a model or after a failed prediction has the rule-based score.
C11_NoErrorReachesTheCaller ==
    /\ ppc # "raised"
    /\ \A k \in DOMAIN outcomes :
          outcomes[k] \in {"no model", "raises"} => priorities[k] = RuleBasedScore(k)

\* C16: select_top_priority_nodes returns (node, score) pairs of distinct
\* input nodes, in non-increasing score order, nodes of equal score in their
\* input order, min(max_nodes, number of nodes) of them.
C16_TopNodesSortedStableTruncated ==
    ppc = "selected" =>
        /\ Len(selected) = (IF max_nodes < Len(pnodes) THEN max_nodes ELSE Len(pnodes))
        /\ \A i \in 1..Len(selected) :
              /\ selected[i].id \in 1..Len(pnodes)
              /\ selected[i].score = priorities[selected[i].id]
        /\ \A i \in 1..Len(selected) : \A j \in (i + 1)..Len(selected) :
              /\ selected[i].id # selected[j].id
              /\ selected[i].score >= selected[j].score
              /\ selected[i].score = selected[j].score => selected[i].id < selected[j].id

\* two nodes of equal non-zero score, both returned, in their input order
C16_Witness ==
    /\ ppc = "selected"
    /\ Len(pnodes) = 2
    /\ max_nodes >= 2
    /\ selected[1].score = selected[2].score
    /\ selected[1].score > 0
    /\ selected[1].id = 1

\* the list is cut to max_nodes = 1 and the later node comes first
C16_TruncationWitness ==
    /\ ppc = "selected"
    /\ Len(pnodes) = 2
    /\ max_nodes = 1
    /\ selected = << [id |-> 2, score |-> priorities[2]] >>
    /\ priorities[2] > priorities[1]

\* C17 (the claim as stated): a node with no sensor reading has score 0.0
\* and is never among the nodes select_top_priority_nodes returns.
C17_NoReadingNeverSelected ==
    /\ \A k \in DOMAIN priorities :
          pnodes[k].reading = NoReading => priorities[k] = 0
    /\ ppc = "selected" =>
          \A i \in 1..Len(selected) : pnodes[selected[i].id].reading # NoReading

\* ---------------------------------------- claims: training and the store
\* C12 (the claim as stated): whatever the interleaving of the training run
\* with the requests that read the store, load_model gives a request no
\* model, the whole previous model or the whole new model, never a part of a
\* model file.
C12_ReadersNeverSeeTornModel ==
    \A r \in DOMAIN rmodel : rmodel[r] \in {"unset", "None", "previous", "new"}

\* C13: train_from_db fails with an explicit error below MinSamples rows;
\* from MinSamples to SplitSamples - 1 rows it fits and validates on all the
\* rows; from SplitSamples rows on it fits and validates on two disjoint,
\* non-empty sets of rows that together are all the rows.
C13_TrainingSplitBySampleCount ==
    tpc \notin {"idle", "call"} =>
        /\ n_samples < MinSamples =>
              /\ tpc = "raised"
              /\ train_result.kind = "error"
              /\ train_result.error = "ValueError"
        /\ (n_samples >= MinSamples /\ n_samples < SplitSamples) =>
              /\ tpc # "raised"
              /\ X_train = 1..n_samples
              /\ X_test = 1..n_samples
        /\ n_samples >= SplitSamples =>
              /\ tpc # "raised"
              /\ X_train \cap X_test = {}
              /\ X_train \cup X_test = 1..n_samples
              /\ X_train # {}
              /\ X_test # {}
        /\ tpc = "done" =>
              /\ train_result.kind = "trained"
              /\ train_result.n_train = Cardinality(X_train)
              /\ train_result.n_test = Cardinality(X_test)

\* training on exactly MinSamples rows has returned, fitted and validated on
\* all of them
C13_Witness ==
    /\ tpc = "done"
    /\ n_samples = MinSamples
    /\ train_result.n_train = MinSamples
    /\ train_result.n_test = MinSamples

\* training on SplitSamples rows has returned with a split of 8 and 2 rows
C13_SplitWitness ==
    /\ tpc = "done"
    /\ n_samples = SplitSamples
    /\ train_result.n_train = 8
    /\ train_result.n_test = 2

\* training on MinSamples - 1 rows has failed
C13_TooFewWitness ==
    /\ tpc = "raised"
    /\ n_samples = MinSamples - 1

\* C18 (the claim as stated): every request that queries the model, for a
\* database that holds nodes with readings, passes it a feature vector with
\* the fields of feature_cols in the same order, the scoring requests and
\* api_predict_cost alike.
C18_SameFeaturesAtTrainingAndInference ==
    \A r \in DOMAIN rresp :
        rresp[r] \in {"predicted", "rule-based", "error"} /\ rpc[r] = "done"
        /\ n_samples > 0
        /\ rmodel[r] \in {"previous", "new"}
        /\ (ReaderKind(r) = "predict_cost" => rversion[r].version # "unset")
        => rfeatures[r] = feature_cols

\* C20 (the claim as stated): the training target of every row equals what
\* calculate_single_priority of the default calculator returns for the row's
\* distance and reading.
C20_TrainingTargetIsRuleBasedScore ==
    \A i \in DOMAIN df :
        df[i].priority_score =
            calculate_single_priority(DefaultCalculator, df[i].distance_from_user,
                                      df[i].waste_level, df[i].gas_level,
                                      df[i].temperature, df[i].humidity)

\* ------------------------------------------ claims: compute_optimal_route
OptNodeIds == {onodes[i].id : i \in 1..Len(onodes)}

\* C15: with a user location the virtual source has exactly one edge to every
\* real node and no other, each weighted by calculate_edge_weight of the
\* distance from the location and the node's score; no edge of the graph
\* leads into the virtual source; it never is in the path, while it is built
\* and when it is returned.
C15_VirtualSourceOnlyLeadsOut ==
    (user_location # NoLocation /\ opc \in {"first", "loop", "done", "recorded"}) =>
        /\ UserLocation \in DOMAIN ograph
        /\ Len(ograph[UserLocation]) = Len(onodes)
        /\ \A id \in OptNodeIds :
              Cardinality({k \in 1..Len(ograph[UserLocation]) :
                              ograph[UserLocation][k][1] = id}) = 1
        /\ \A k \in 1..Len(ograph[UserLocation]) :
              LET id == ograph[UserLocation][k][1]
                  node == onodes[CHOOSE i \in 1..Len(onodes) : onodes[i].id = id]
              IN /\ id \in OptNodeIds
                 /\ ograph[UserLocation][k][2] =
                       Rat(10 * Abs(node.lat - user_location.lat),
                           10 + oalpha * Clamp(0, oscores[id], 10))
        /\ \A u \in DOMAIN ograph : \A k \in 1..Len(ograph[u]) :
              ograph[u][k][1] # UserLocation
        /\ \A i \in 1..Len(opath) : opath[i] # UserLocation
        /\ opc = "done" =>
              /\ oresult.kind = "route"
              /\ oresult.graph_edges = ograph
              /\ \A i \in 1..Len(oresult.path) : oresult.path[i] # UserLocation

\* a route from a user location over three nodes has been returned
C15_Witness ==
    /\ opc = "done"
    /\ user_location # NoLocation
    /\ Len(onodes) = 3
    /\ Len(oresult.path) = 3
    /\ oresult.source_type = "user_location"
    /\ \E k \in 1..3 : RatNum(ograph[UserLocation][k][2]) > 0

\* every weight, in units of 1/GraphScale, and every sum of them stays far
\* below the number that stands for float('inf')
OptWeightsBelowInfinity ==
    opc \in {"first", "loop", "done", "recorded"} =>
        /\ \A u \in DOMAIN ograph : \A k \in 1..Len(ograph[u]) :
              Abs(ScaledGraph(ograph)[u][k][2]) * (Len(onodes) + 1) < Infinity
        /\ (osource \in DOMAIN ograph) => Abs(ototal) < Infinity

\* the latitude of a vertex of the graph of compute_optimal_route
OptLat(u) ==
    IF u = UserLocation THEN user_location.lat
    ELSE onodes[CHOOSE i \in 1..Len(onodes) : onodes[i].id = u].lat

\* the graph with the same edges, each weighted by the base distance between
\* its endpoints
BaseGraph ==
    [u \in DOMAIN ograph |->
        [k \in 1..Len(ograph[u]) |->
            <<ograph[u][k][1], haversine_distance(OptLat(u), OptLat(ograph[u][k][1]))>>]]

\* the position the i-th node of the path was chosen from
OptFrom(i) == IF i = 1 THEN osource ELSE opath[i - 1]

\* the cost of the first i steps of the path at base distances
RECURSIVE PureDistanceCost(_)
PureDistanceCost(i) ==
    IF i = 0 THEN 0
    ELSE Plus(PureDistanceCost(i - 1), TrueDist(BaseGraph, OptFrom(i), opath[i]))

\* C21: with alpha = 0 every edge weight of the graph compute_optimal_route
\* builds (the virtual source's edges included) equals the base distance
\* between its endpoints, whatever the urgency scores; every node of the path
\* is, among the nodes not yet visited, one at the least base-distance from
\* the position it was chosen from, and the cost is the sum of those distances.
C21_AlphaZeroIsPureDistance ==
    (oalpha = 0 /\ opc \in {"first", "loop", "done", "recorded"}) =>
        /\ \A u \in DOMAIN ograph : \A k \in 1..Len(ograph[u]) :
              /\ ograph[u][k][2].m # 0
              /\ ograph[u][k][2].n = BaseGraph[u][k][2] * ograph[u][k][2].m
        /\ \A i \in 1..Len(opath) :
              LET left == OptNodeIds \ {opath[j] : j \in 1..(i - 1)}
              IN /\ opath[i] \in left
                 /\ \A x \in left :
                       TrueDist(BaseGraph, OptFrom(i), opath[i])
                          <= TrueDist(BaseGraph, OptFrom(i), x)
        /\ ototal = (IF PureDistanceCost(Len(opath)) = Infinity THEN Infinity
                     ELSE GraphScale(ograph) * PureDistanceCost(Len(opath)))
        /\ opc = "done" => oresult.path = opath /\ oresult.alpha = 0

\* a route over three nodes of different scores, not all at one place, has
\* been returned for alpha = 0
C21_Witness ==
    /\ opc = "done"
    /\ oalpha = 0
    /\ Len(onodes) = 3
    /\ oscores[1] # oscores[2]
    /\ onodes[1].lat # onodes[3].lat
    /\ osource \in DOMAIN ograph
    /\ ototal > 0

\* ---------------------------------------- claims: views.api_compute_route
\* C19 (the claim as stated), on the graphs the route API builds for any
\* alpha: every iteration of compute_route's loop, once it has selected its
\* target, reaches the end of the iteration with exactly one target fewer
\* in the unvisited list, and the call returns with the list empty.
C19_EveryIterationRemovesOneTarget ==
    [][/\ pc = "traverse" =>
             /\ pc' = "select"
             /\ Len(remaining') = Len(remaining) - 1
       /\ (pc = "select" /\ pc' = "done") => remaining = <<>>]_vars

\* the loop has ended for a request with two targets on a graph with a
\* negative weight
C19_NegativeWeightWitness ==
    /\ apc = "done"
    /\ api_response.kind = "route"
    /\ Len(targets) = 2
    /\ \E u \in DOMAIN graph : \E k \in 1..Len(graph[u]) : graph[u][k][2] < 0

\* C22 (the claim as stated): a request whose source or one of whose targets
\* is not a node of the node set the graph was built from is answered with
\* an error, and no route is stored for it.
C22_UnknownVertexIsRejected ==
    (/\ apc = "done"
     /\ nodes # <<>>
     /\ \/ source \notin NodeIds
        \/ \E i \in 1..Len(targets) : targets[i] \notin NodeIds) =>
        /\ api_response.kind = "error"
        /\ persisted = <<>>

\* the sum of the weights of the edges the record lists, in units of
\* 1/GraphScale
RECURSIVE ListedEdgesCost(_)
ListedEdgesCost(i) ==
    IF i = 0 THEN 0
    ELSE ListedEdgesCost(i - 1) + ScaledWeight(orecord.edges[i].w, GraphScale(ograph))

\* C23 (the claim as stated): the total_cost of the route record built from
\* compute_optimal_route's result equals the sum of the weights of the edges
\* the record lists, for alpha >= 0 and a source that is a vertex of the
\* graph, with or without a user location.
C23_TotalCostIsSumOfListedEdges ==
    (opc = "recorded" /\ oalpha >= 0 /\ osource \in DOMAIN ograph) =>
        /\ orecord.total_cost.m = GraphScale(ograph)
        /\ orecord.total_cost.n = ListedEdgesCost(Len(orecord.edges))

\* C24 (the claim as stated): the alpha a route result reports is the alpha
\* the graph of that route was built with, for compute_route on the graph
\* the route API has built for an alpha >= 0, a source and targets that are
\* nodes, and for compute_optimal_route.
C24_ReportedAlphaIsGraphAlpha ==
    /\ (/\ apc \in {"routing", "done"}
        /\ result.kind = "route"
        /\ alphaT >= 0
        /\ source \in NodeIds
        /\ \A i \in 1..Len(targets) : targets[i] \in NodeIds) =>
          result.alpha = alphaT
    /\ (opc \in {"done", "recorded"} /\ oresult.kind = "route") =>
          oresult.alpha = oalpha

\* C25 (the claim as stated): whatever the interleaving of the training run
\* with the requests, the model a request got from load_model and the
\* metadata it then got from get_model_version were written by the same
\* training run.
C25_ModelAndVersionFromSameRun ==
    \A r \in DOMAIN rversion :
        rversion[r].version # "unset" => rversion[r].run = rmodel[r]

\* C26: a call of train_from_db on fewer than MinSamples rows (none
\* included) never changes the model file or the metadata, and the store is
\* changed only by a call that has fitted and validated a model on at least
\* MinSamples rows.
C26_FailedTrainingLeavesStoreUntouched ==
    [][/\ n_samples < MinSamples =>
             /\ stored_model' = stored_model
             /\ stored_meta' = stored_meta
             /\ tpc' \in {"call", "raised"}
       /\ (stored_model' # stored_model \/ stored_meta' # stored_meta) =>
             /\ tpc \in {"fitted", "dumping", "dumped", "meta"}
             /\ n_samples >= MinSamples
             /\ X_train # {}
             /\ X_test # {}]_vars

\* training on MinSamples - 1 rows has failed, and a request served after
\* it has loaded the model of the earlier run
C26_Witness ==
    /\ tpc = "raised"
    /\ n_samples = MinSamples - 1
    /\ train_result.kind = "error"
    /\ stored_model = ModelFile("previous", MaxChunks)
    /\ stored_meta = MetaFile("previous")
    /\ \E r \in DOMAIN rmodel : rmodel[r] = "previous"

\* training on no rows has failed on an empty store
C26_NoDataWitness ==
    /\ tpc = "raised"
    /\ n_samples = 0
    /\ stored_model = NoFile
    /\ stored_meta = NoFile

Acyclic(g, s, p) ==
    /\ \A v \in Universe(g) : ~Diverges(p, v)
    /\ \A v \in Universe(g) : Len(reconstruct_path(p, v)) <= Cardinality(Universe(g))
    /\ Get(p, s, None) = None

\* C28: on the graphs with non-negative weights the predecessor map dijkstra
\* returns holds no cycle (reconstruct_path ends on every vertex) and gives
\* the source no predecessor.  Checked on the tree compute_route returns and
\* on the map of every loop iteration.
C28_PredecessorMapHasNoCycle ==
    /\ result.kind = "tree" => Acyclic(graph, source, result.tree_prev)
    /\ pc = "traverse" => Acyclic(graph, current, prev)

\* the search has run on a graph with a cycle of weight 0 through the source
C28_Witness ==
    /\ result.kind = "tree"
    /\ \E v \in DOMAIN graph :
          /\ v # source
          /\ IsEdge(graph, source, v)
          /\ IsEdge(graph, v, source)
          /\ EdgeWeight(graph, source, v) = 0
          /\ EdgeWeight(graph, v, source) = 0
          /\ result.tree_prev[v] = source

\* C29: while compute_optimal_route builds the path, the path holds no id
\* twice and, with the nodes still unvisited, makes up the ids of the
\* supplied nodes; the path it returns holds every node id exactly once and
\* nothing else, whatever the scores, alpha, source_node_id or user location.
C29_PathIsPermutationOfNodeIds ==
    /\ opc \in {"first", "loop", "done", "recorded"} =>
          /\ \A i \in 1..Len(opath) : \A j \in 1..Len(opath) :
                i # j => opath[i] # opath[j]
          /\ {opath[i] : i \in 1..Len(opath)} \cap unvisited = {}
          /\ {opath[i] : i \in 1..Len(opath)} \cup unvisited = OptNodeIds
    /\ oresult.kind = "route" =>
          /\ Len(oresult.path) = Len(onodes)
          /\ \A i \in 1..Len(oresult.path) : oresult.path[i] \in OptNodeIds
          /\ \A id \in OptNodeIds : Occurrences(oresult.path, id) = 1

\* a route over three nodes from the source node 2 has been returned, with
\* node 3 before node 1
C29_Witness ==
    /\ oresult.kind = "route"
    /\ Len(onodes) = 3
    /\ source_node_id = 2
    /\ oresult.path = <<2, 3, 1>>

\* a route has been returned for a negative alpha and a source_node_id that
\* is no node
C29_NegativeAlphaWitness ==
    /\ oresult.kind = "route"
    /\ Len(onodes) = 3
    /\ oalpha < 0
    /\ source_node_id = 4

\* C30: compute_route called without targets returns the shortest-path tree
\* (source, distances, tree_prev) and neither path nor total_cost; a request
\* to the route API without target_node_ids on a node set that holds only
\* the source calls it so, and stores and answers a route with an empty
\* path, no edges and total cost 0.0.
C30_NoTargetsGivesTreeAndEmptyRoute ==
    /\ (pc = "done" /\ targets = <<>>) =>
          /\ DOMAIN result = {"kind", "source", "distances", "tree_prev"}
          /\ result.kind = "tree"
          /\ result.source = source
          /\ result.distances = dijkstra(graph, source).dist
          /\ result.tree_prev = dijkstra(graph, source).prev
    /\ (/\ apc \in {"routing", "done"}
        /\ Len(nodes) = 1
        /\ req_targets = <<>>
        /\ source = nodes[1].id) =>
          /\ targets = <<>>
          /\ apc = "done" =>
                /\ api_response.kind = "route"
                /\ api_response.route.path = <<>>
                /\ api_response.route.edges = <<>>
                /\ api_response.total_cost.n = 0
                /\ Len(persisted) = 1
                /\ persisted[1].route_data = api_response.route
                /\ persisted[1].total_cost.n = 0

\* the request without targets on a single node has been answered
C30_Witness ==
    /\ apc = "done"
    /\ Len(nodes) = 1
    /\ req_source = None
    /\ req_targets = <<>>
    /\ result.kind = "tree"
    /\ Len(persisted) = 1

====
